---- MODULE Spec2Model ----
(***************************************************************************)
(* Model of the subtitle micro-service (lucaaxano/Automated_Captions):     *)
(* the text segmenter, the fallback alignment heuristic, the segment       *)
(* normalizer, the style store, the subtitle document generator,           *)
(* forced_align and the /align and /render request handlers with their     *)
(* working files.                                                          *)
(*                                                                         *)
(* Strings are sequences of one-character strings.  Times are integers:    *)
(* microseconds for unrounded values, milliseconds for values the code     *)
(* rounds to 3 decimals.                                                   *)
(***************************************************************************)
EXTENDS Integers, Sequences, FiniteSets, TLC

\* ------------------------------------------------------------------ bounds
MaxTextLen == 6          \* longest text handed directly to the segmenter
MaxSplitArg == 3         \* largest explicit max_words argument
MaxChunks == 3           \* most sentences handed directly to the fallback
MaxChunkLen == 3         \* longest such sentence
MaxDurSteps == 4         \* probed durations are 0..MaxDurSteps steps
DurStepUs == 750250      \* one step of probed duration, in microseconds
MaxScriptWords == 6      \* most words in a request's script text
MaxNormTextLen == 5      \* longest segment text handed directly to the normalizer
MaxNormChars == 4        \* largest max_chars argument of such a call
MaxNormLines == 2        \* largest max_lines argument of such a call
MaxStyleCalls == 2       \* most direct calls of get_style_for_resolution
MaxGenTextLen == 2       \* longest segment text handed directly to generate_ass
MaxTimeMs == 300         \* times 0..MaxTimeMs ms are handed to _seconds_to_ass_time

\* -------------------------------------------------------- program constants
DefaultMaxWords == 5

\* ------------------------------------------------------------- characters
Whitespace == {" ", "\n"}
Terminators == {".", "!", "?"}
Chars == {"a", "."} \cup Whitespace

RECURSIVE TextsUpTo(_)
TextsUpTo(n) ==
    IF n = 0 THEN {<<>>}
    ELSE LET shorter == TextsUpTo(n - 1)
         IN  shorter \cup {Append(t, c) : t \in {s \in shorter : Len(s) = n - 1}, c \in Chars}

Min(a, b) == IF a <= b THEN a ELSE b
Max(a, b) == IF a >= b THEN a ELSE b

\* ------------------------------------------------------- str.strip / split
RECURSIVE LStrip(_)
LStrip(s) ==
    IF s = <<>> THEN <<>>
    ELSE IF Head(s) \in Whitespace THEN LStrip(Tail(s)) ELSE s

RECURSIVE RStrip(_)
RStrip(s) ==
    IF s = <<>> THEN <<>>
    ELSE IF s[Len(s)] \in Whitespace THEN RStrip(SubSeq(s, 1, Len(s) - 1)) ELSE s

Strip(s) == RStrip(LStrip(s))

\* str.split() with no separator: the maximal runs of non-whitespace
\* characters, in order; never an empty word.
WordStarts(s) ==
    {i \in 1..Len(s) : s[i] \notin Whitespace /\ (i = 1 \/ s[i - 1] \in Whitespace)}

WordEnd(s, i) ==
    CHOOSE j \in i..Len(s) :
        /\ \A k \in i..j : s[k] \notin Whitespace
        /\ (j = Len(s) \/ s[j + 1] \in Whitespace)

NthStart(s, k) ==
    CHOOSE i \in WordStarts(s) : Cardinality({j \in WordStarts(s) : j < i}) = k - 1

Split(s) ==
    [k \in 1..Cardinality(WordStarts(s)) |->
        SubSeq(s, NthStart(s, k), WordEnd(s, NthStart(s, k)))]

\* sep.join(words)
RECURSIVE Join(_, _)
Join(sep, words) ==
    IF words = <<>> THEN <<>>
    ELSE IF Len(words) = 1 THEN words[1]
    ELSE words[1] \o sep \o Join(sep, Tail(words))

\* ------------------------------------------------- _split_into_sentences
\* Variant that drops a trailing partial chunk (range stops early).
split_into_sentences_drop_tail(text, max_words) ==
    LET words == Split(Strip(text))
        n == Len(words)
        count == n \div max_words
    IN  IF n = 0 THEN <<>>
        ELSE [k \in 1..count |->
                Join(<<" ">>, SubSeq(words, (k - 1) * max_words + 1,
                                     Min(k * max_words, n)))]

\* The range(0, len(words), max_words) loop, one slice words[i:i+max_words]
\* per iteration, each joined with a single space.
split_into_sentences(text, max_words) ==
    LET words == Split(Strip(text))
        n == Len(words)
        count == (n + max_words - 1) \div max_words
    IN  IF n = 0 THEN <<>>
        ELSE [k \in 1..count |->
                Join(<<" ">>, SubSeq(words, (k - 1) * max_words + 1,
                                     Min(k * max_words, n)))]

\* ----------------------------------------------------- _fallback_alignment
\* Times before rounding are exact fractions num / total_chars, num in
\* microseconds.  round(x, 3) is modelled as round-half-to-even of the exact
\* value to whole milliseconds.
MinSentenceDurationUs == 500000
FallbackSecondsPerSentenceUs == 3000000

RoundHalfEven(num, den) ==
    LET q == num \div den
        r == num % den
    IN  IF 2 * r < den THEN q
        ELSE IF 2 * r > den THEN q + 1
        ELSE IF q % 2 = 0 THEN q ELSE q + 1

\* round(num/den microseconds, 3 decimals of a second) in milliseconds
RoundMs(num, den) == RoundHalfEven(num, den * 1000)

RECURSIVE SumLens(_)
SumLens(sentences) ==
    IF sentences = <<>> THEN 0 ELSE Len(Head(sentences)) + SumLens(Tail(sentences))

\* total_chars = sum(len(s) for s in sentences); 0 is replaced by 1
TotalChars(sentences) ==
    LET t == SumLens(sentences) IN IF t = 0 THEN 1 ELSE t

\* Variant that leaves the duration at zero when the probe fails.
FallbackDurationZeroOnFailure(sentences, probe) ==
    IF probe.ok THEN probe.duration ELSE 0

\* duration: the probed value, or len(sentences) * 3.0 when the probe fails
FallbackDuration(sentences, probe) ==
    IF probe.ok THEN probe.duration
    ELSE Len(sentences) * FallbackSecondsPerSentenceUs

\* Variant without the minimum-duration floor.
SentenceDurationNoFloor(length, total_chars, duration) ==
    length * duration

\* sentence_duration = max((len(sentence) / total_chars) * duration, 0.5),
\* as a numerator over total_chars
SentenceDuration(length, total_chars, duration) ==
    Max(length * duration, MinSentenceDurationUs * total_chars)

\* Variant in which the running clock is never advanced.
CurrentTimeStuck(durations, i) == 0

\* current_time at the top of loop iteration i: the sum of the earlier
\* sentence durations (numerator over total_chars)
RECURSIVE CurrentTime(_, _)
CurrentTime(durations, i) ==
    IF i <= 1 THEN 0 ELSE CurrentTime(durations, i - 1) + durations[i - 1]

fallback_alignment(sentences, probe) ==
    LET duration == FallbackDuration(sentences, probe)
        total_chars == TotalChars(sentences)
        durations == [i \in 1..Len(sentences) |->
                        SentenceDuration(Len(sentences[i]), total_chars, duration)]
    IN  [ duration |-> duration,
          total_chars |-> total_chars,
          sentence_duration |-> durations,
          segments |-> [i \in 1..Len(sentences) |->
              [ start |-> RoundMs(CurrentTime(durations, i), total_chars),
                end |-> RoundMs(CurrentTime(durations, i) + durations[i], total_chars),
                text |-> sentences[i] ]] ]

\* ----------------------------------------------------- _normalize_segments
\* The greedy wrap loop: words are appended to current_line while the joined
\* test_line fits the cap, otherwise current_line is flushed to lines.
RECURSIVE WrapWords(_, _, _, _)
WrapWords(words, current_line, lines, cap) ==
    IF words = <<>>
    THEN IF current_line # <<>> THEN Append(lines, Join(<<" ">>, current_line)) ELSE lines
    ELSE LET word == Head(words)
             test_line == Join(<<" ">>, Append(current_line, word))
         IN  IF Len(test_line) <= cap
             THEN WrapWords(Tail(words), Append(current_line, word), lines, cap)
             ELSE WrapWords(Tail(words), <<word>>,
                            IF current_line # <<>>
                            THEN Append(lines, Join(<<" ">>, current_line))
                            ELSE lines,
                            cap)

\* Variant that joins every wrapped line instead of the first max_lines.
NormalizedTextAllLines(raw, max_chars, max_lines) ==
    LET text == Strip(raw)
    IN  IF Len(text) > max_chars
        THEN Join(<<"\n">>, WrapWords(Split(text), <<>>, <<>>, max_chars \div max_lines))
        ELSE text

NormalizedText(raw, max_chars, max_lines) ==
    LET text == Strip(raw)
    IN  IF Len(text) > max_chars
        THEN LET lines == WrapWords(Split(text), <<>>, <<>>, max_chars \div max_lines)
             IN  Join(<<"\n">>, SubSeq(lines, 1, Min(max_lines, Len(lines))))
        ELSE text

\* Segment(start=..., end=..., text=...) validates ge=0, ge=0, min_length=1
SegmentValid(seg) == seg.start >= 0 /\ seg.end >= 0 /\ Len(seg.text) >= 1

\* Variant that keeps the last max_lines wrapped lines instead of the first.
normalize_segments_keep_last_lines(segments, max_chars, max_lines) ==
    [i \in 1..Len(segments) |->
        [ start |-> segments[i].start,
          end |-> segments[i].end,
          text |-> LET text == Strip(segments[i].text)
                       lines == WrapWords(Split(text), <<>>, <<>>, max_chars \div max_lines)
                   IN  IF Len(text) > max_chars
                       THEN Join(<<"\n">>, SubSeq(lines, Max(1, Len(lines) - max_lines + 1),
                                                  Len(lines)))
                       ELSE text ]]

normalize_segments(segments, max_chars, max_lines) ==
    [i \in 1..Len(segments) |->
        [ start |-> segments[i].start,
          end |-> segments[i].end,
          text |-> NormalizedText(segments[i].text, max_chars, max_lines) ]]

\* A call of _normalize_segments as its caller sees it: the list, or the
\* ValidationError of the Segment constructor (lines 108-112) on the first
\* text that is empty after strip().
NormalizeCall(segments, max_chars, max_lines) ==
    LET normalized == normalize_segments(segments, max_chars, max_lines)
    IN  IF \A i \in 1..Len(normalized) : SegmentValid(normalized[i])
        THEN [exc |-> "none", segments |-> normalized]
        ELSE [exc |-> "ValidationError", segments |-> <<>>]

NormalizeMaxChars == 80
NormalizeMaxLines == 2

\* ------------------------------------------------------------ _run_aeneas
\* Parsing of the aligner's result: fragments with an empty text line are
\* skipped; begin/end become start/end.  The result is the segment list, or
\* the exception the loop raises (IndexError for an empty "lines" list,
\* ValidationError from Segment).
RECURSIVE ParseFragments(_)
ParseFragments(fragments) ==
    IF fragments = <<>> THEN [exc |-> "none", segments |-> <<>>]
    ELSE LET fragment == Head(fragments)
         IN  IF fragment.lines = <<>> THEN [exc |-> "IndexError", segments |-> <<>>]
             ELSE LET text == Strip(fragment.lines[1])
                      rest == ParseFragments(Tail(fragments))
                      seg == [start |-> fragment.begin, end |-> fragment.end, text |-> text]
                  IN  IF text = <<>> THEN rest
                      ELSE IF ~SegmentValid(seg)
                      THEN [exc |-> "ValidationError", segments |-> <<>>]
                      ELSE IF rest.exc # "none" THEN rest
                      ELSE [exc |-> "none", segments |-> <<seg>> \o rest.segments]

\* except FileNotFoundError / except json.JSONDecodeError of _run_aeneas:
\* both are re-raised as AlignmentError, everything else passes through.
RunAeneasReraise(cls) ==
    IF cls \in {"FileNotFoundError", "JSONDecodeError"} THEN "AlignmentError" ELSE cls

\* ------------------------------------------------------------ forced_align
LANGUAGE_MAP ==
    {"vie", "deu", "eng", "fra", "spa", "ita", "por", "rus", "zho", "jpn", "kor"}

\* Variant that substitutes the function's default argument instead.
ValidateLanguageVie(language) ==
    IF language \in LANGUAGE_MAP THEN language ELSE "vie"

\* if language not in LANGUAGE_MAP: language = "eng"
ValidateLanguage(language) ==
    IF language \in LANGUAGE_MAP THEN language ELSE "eng"

\* Variant that catches only the service's own error class.
AeneasExceptCatchesOwn(cls) == cls = "AlignmentError"

\* `except Exception` around the _run_aeneas call: every exception class of
\* the model derives from Exception.
AeneasExceptCatches(cls) == cls # "none"

\* Variant that removes only the chunk-text file.
FinallyUnlinkFirst(files, text_file, output_file) == files \ {text_file}

\* finally: for f in [text_file, output_file]: if f.exists(): f.unlink()
\* (errors swallowed).  Unlinking an existing file of the service's own temp
\* directory is taken to succeed.
FinallyUnlink(files, text_file, output_file) == files \ {text_file, output_file}

\* --------------------------------------------------------------- video.py
\* cleanup_files(*paths): unlink every path that is set and exists
cleanup_files(files, paths) == files \ (paths \ {"None"})

\* --------------------------------------------------------------- styles.py
\* An ASSStyle is a record of the dataclass's 23 fields.  angle, outline and
\* shadow are floats with at most one decimal: they are held in tenths.
StyleFields ==
    <<"name", "fontname", "fontsize", "primary_color", "secondary_color",
      "outline_color", "back_color", "bold", "italic", "underline", "strikeout",
      "scale_x", "scale_y", "spacing", "angle", "border_style", "outline", "shadow",
      "alignment", "margin_l", "margin_r", "margin_v", "encoding">>

\* get_style_presets(): a fresh dictionary of fresh ASSStyle objects per call
get_style_presets ==
    [ tiktok_clean |->
        [ name |-> "Default", fontname |-> "Inter", fontsize |-> 48,
          primary_color |-> "&H00FFFFFF", secondary_color |-> "&H000000FF",
          outline_color |-> "&H00000000", back_color |-> "&H80000000",
          bold |-> -1, italic |-> 0, underline |-> 0, strikeout |-> 0,
          scale_x |-> 100, scale_y |-> 100, spacing |-> 0, angle |-> 0,
          border_style |-> 1, outline |-> 25, shadow |-> 15, alignment |-> 2,
          margin_l |-> 40, margin_r |-> 40, margin_v |-> 80, encoding |-> 1 ],
      tiktok_bold |->
        [ name |-> "Default", fontname |-> "Inter", fontsize |-> 56,
          primary_color |-> "&H00FFFFFF", secondary_color |-> "&H000000FF",
          outline_color |-> "&H00000000", back_color |-> "&H80000000",
          bold |-> -1, italic |-> 0, underline |-> 0, strikeout |-> 0,
          scale_x |-> 100, scale_y |-> 100, spacing |-> 1, angle |-> 0,
          border_style |-> 1, outline |-> 30, shadow |-> 20, alignment |-> 2,
          margin_l |-> 40, margin_r |-> 40, margin_v |-> 100, encoding |-> 1 ],
      minimal |->
        [ name |-> "Default", fontname |-> "Arial", fontsize |-> 40,
          primary_color |-> "&H00FFFFFF", secondary_color |-> "&H000000FF",
          outline_color |-> "&H00000000", back_color |-> "&H00000000",
          bold |-> 0, italic |-> 0, underline |-> 0, strikeout |-> 0,
          scale_x |-> 100, scale_y |-> 100, spacing |-> 0, angle |-> 0,
          border_style |-> 1, outline |-> 15, shadow |-> 0, alignment |-> 2,
          margin_l |-> 20, margin_r |-> 20, margin_v |-> 60, encoding |-> 1 ] ]

\* AVAILABLE_PRESETS = list(get_style_presets().keys())
AVAILABLE_PRESETS == DOMAIN get_style_presets

ReferenceHeight == 1080

\* int(base * (height / 1080.0)): truncation.  For the heights of the model
\* the double-precision product truncates to the exact quotient's integer
\* part.
ScaleInt(base, height) == (base * height) \div ReferenceHeight

\* round(base * (height / 1080.0), 1), in tenths; away from exact ties the
\* double-precision result is the exact quotient's nearest tenth.
ScaleTenths(base, height) == RoundHalfEven(base * height, ReferenceHeight)

\* Variant that leaves the vertical margin at its base value.
get_style_for_resolution_base_margin(preset_name, width, height) ==
    LET presets == get_style_presets
        name == IF preset_name \notin DOMAIN presets THEN "tiktok_clean" ELSE preset_name
        style == presets[name]
    IN  [style EXCEPT !.fontsize = ScaleInt(@, height),
                      !.outline = ScaleTenths(@, height),
                      !.shadow = ScaleTenths(@, height)]

get_style_for_resolution(preset_name, width, height) ==
    LET presets == get_style_presets
        name == IF preset_name \notin DOMAIN presets THEN "tiktok_clean" ELSE preset_name
        style == presets[name]
    IN  [style EXCEPT !.fontsize = ScaleInt(@, height),
                      !.margin_v = ScaleInt(@, height),
                      !.outline = ScaleTenths(@, height),
                      !.shadow = ScaleTenths(@, height)]

\* Variant that leaves out the last field.
to_ass_line_no_encoding(style) ==
    LET Tenths(x) == <<ToString(x \div 10), ".", ToString(x % 10)>>
    IN  <<"Style: ">> \o Join(<<",">>,
          << <<style.name>>, <<style.fontname>>, <<ToString(style.fontsize)>>,
             <<style.primary_color>>, <<style.secondary_color>>,
             <<style.outline_color>>, <<style.back_color>>,
             <<ToString(style.bold)>>, <<ToString(style.italic)>>,
             <<ToString(style.underline)>>, <<ToString(style.strikeout)>>,
             <<ToString(style.scale_x)>>, <<ToString(style.scale_y)>>,
             <<ToString(style.spacing)>>, Tenths(style.angle),
             <<ToString(style.border_style)>>, Tenths(style.outline),
             Tenths(style.shadow), <<ToString(style.alignment)>>,
             <<ToString(style.margin_l)>>, <<ToString(style.margin_r)>>,
             <<ToString(style.margin_v)>> >>)

\* ASSStyle.to_ass_line: the f-string, as the sequence of its pieces.  A
\* float prints with its decimal point ("1.7", "0.0").
to_ass_line(style) ==
    LET Tenths(x) == <<ToString(x \div 10), ".", ToString(x % 10)>>
    IN  <<"Style: ">> \o Join(<<",">>,
          << <<style.name>>, <<style.fontname>>, <<ToString(style.fontsize)>>,
             <<style.primary_color>>, <<style.secondary_color>>,
             <<style.outline_color>>, <<style.back_color>>,
             <<ToString(style.bold)>>, <<ToString(style.italic)>>,
             <<ToString(style.underline)>>, <<ToString(style.strikeout)>>,
             <<ToString(style.scale_x)>>, <<ToString(style.scale_y)>>,
             <<ToString(style.spacing)>>, Tenths(style.angle),
             <<ToString(style.border_style)>>, Tenths(style.outline),
             Tenths(style.shadow), <<ToString(style.alignment)>>,
             <<ToString(style.margin_l)>>, <<ToString(style.margin_r)>>,
             <<ToString(style.margin_v)>>, <<ToString(style.encoding)>> >>)

\* -------------------------------------------------------- ass_generator.py
\* Documents, lines and time strings are sequences of pieces: the characters
\* of a segment text, and the literal parts and formatted values of the
\* f-strings.
RECURSIVE Pow2(_)
Pow2(n) == IF n = 0 THEN 1 ELSE 2 * Pow2(n - 1)

\* 2^n modulo m
RECURSIVE Pow2Mod(_, _)
Pow2Mod(n, m) == IF n = 0 THEN 1 % m ELSE (2 * Pow2Mod(n - 1, m)) % m

\* The binary exponent of num/den > 0: the e with 2^e <= num/den < 2^(e+1)
RECURSIVE ExponentUp(_, _, _)
ExponentUp(num, den, e) ==
    IF Pow2(e + 1) * den <= num THEN ExponentUp(num, den, e + 1) ELSE e

RECURSIVE ExponentDown(_, _, _)
ExponentDown(num, den, m) ==
    IF Pow2(m) * num < den THEN ExponentDown(num, den, m + 1) ELSE 0 - m

Exponent(num, den) ==
    IF num >= den THEN ExponentUp(num, den, 0) ELSE ExponentDown(num, den, 1)

\* int((seconds % 1) * 100) where seconds is the double nearest to ms/1000.
\* With c = ms/10 whole centiseconds, k = c % 100 and e the exponent of the
\* double, the stored value is c/100 + d/(100 * 2^(52-e)) with d the
\* round-to-nearest error numerator, -50 < d < 50.  seconds % 1 is exact; the
\* product k + d/2^(52-e) is rounded to a double again, and int() gives k
\* unless d < 0 and the product stays below k after that rounding, which
\* is when |d| exceeds half the spacing of the doubles just below k.  When
\* ms is no multiple of 10 the product is far from an integer.
FloatCentiseconds(ms) ==
    LET k == (ms % 1000) \div 10
    IN  IF ms % 10 # 0 \/ k = 0 THEN k
        ELSE LET c == ms \div 10
                 e == Exponent(c, 100)
                 r == (c * Pow2Mod(52 - e, 100)) % 100
                 j == Exponent(k, 1)
                 x == (IF Pow2(j) = k THEN j - 1 ELSE j) - e - 1
             IN  IF r = 0 \/ r > 50 THEN k
                 ELSE IF x >= 0 /\ r <= Pow2(x) THEN k
                 ELSE k - 1

Digits2(n) == <<ToString(n \div 10), ToString(n % 10)>>

\* _seconds_to_ass_time: hours, minutes and seconds by floor division of the
\* double (exact on the whole-second part), centiseconds by int().
seconds_to_ass_time(ms) ==
    LET whole == ms \div 1000
        hours == whole \div 3600
        minutes == (whole % 3600) \div 60
        secs == whole % 60
        centiseconds == FloatCentiseconds(ms)
    IN  <<ToString(hours), ":">> \o Digits2(minutes) \o <<":">> \o Digits2(secs)
            \o <<".">> \o Digits2(centiseconds)

\* Variant that leaves the text as it is.
escape_ass_text_verbatim(text) == text

\* text.replace("\n", "\\N")
escape_ass_text(text) ==
    [i \in 1..Len(text) |-> IF text[i] = "\n" THEN "\\N" ELSE text[i]]

StyleFormatNames ==
    <<"Name", "Fontname", "Fontsize", "PrimaryColour", "SecondaryColour",
      "OutlineColour", "BackColour", "Bold", "Italic", "Underline", "StrikeOut",
      "ScaleX", "ScaleY", "Spacing", "Angle", "BorderStyle", "Outline", "Shadow",
      "Alignment", "MarginL", "MarginR", "MarginV", "Encoding">>

EventFormatNames ==
    <<"Layer", "Start", "End", "Style", "Name", "MarginL", "MarginR", "MarginV",
      "Effect", "Text">>

FormatLine(names) ==
    <<"Format: ">> \o Join(<<",", " ">>, [i \in 1..Len(names) |-> <<names[i]>>])

\* f"Dialogue: 0,{start_time},{end_time},Default,,0,0,0,,{text}"
Dialogue(segment) ==
    <<"Dialogue: ", "0", ",">> \o seconds_to_ass_time(segment.start) \o <<",">>
        \o seconds_to_ass_time(segment.end)
        \o <<",", "Default", ",", ",", "0", ",", "0", ",", "0", ",", ",">>
        \o escape_ass_text(segment.text)

\* Variant that substitutes another catalog preset for an unknown name.
generate_ass_minimal_default(segments, style_preset, resolution) ==
    LET width == resolution[1]
        height == resolution[2]
        preset == IF style_preset \notin AVAILABLE_PRESETS THEN "minimal" ELSE style_preset
        style == get_style_for_resolution(preset, width, height)
        ass_content ==
            << <<"[Script Info]">>, <<"Title: Generated Subtitles">>,
               <<"ScriptType: v4.00+">>, <<"PlayResX: ", ToString(width)>>,
               <<"PlayResY: ", ToString(height)>>, <<"ScaledBorderAndShadow: yes">>,
               <<"YCbCr Matrix: TV.709">>, <<>>,
               <<"[V4+ Styles]">>, FormatLine(StyleFormatNames), to_ass_line(style), <<>>,
               <<"[Events]">>, FormatLine(EventFormatNames) >>
            \o [i \in 1..Len(segments) |-> Dialogue(segments[i])]
    IN  Join(<<"\n">>, ass_content)

generate_ass(segments, style_preset, resolution) ==
    LET width == resolution[1]
        height == resolution[2]
        preset == IF style_preset \notin AVAILABLE_PRESETS THEN "tiktok_clean" ELSE style_preset
        style == get_style_for_resolution(preset, width, height)
        ass_content ==
            << <<"[Script Info]">>, <<"Title: Generated Subtitles">>,
               <<"ScriptType: v4.00+">>, <<"PlayResX: ", ToString(width)>>,
               <<"PlayResY: ", ToString(height)>>, <<"ScaledBorderAndShadow: yes">>,
               <<"YCbCr Matrix: TV.709">>, <<>>,
               <<"[V4+ Styles]">>, FormatLine(StyleFormatNames), to_ass_line(style), <<>>,
               <<"[Events]">>, FormatLine(EventFormatNames) >>
            \o [i \in 1..Len(segments) |-> Dialogue(segments[i])]
    IN  Join(<<"\n">>, ass_content)

\* ------------------------------------------------------------------ state
VARIABLES
    split_pc,       \* "idle" | "call" | "done": a direct call of the segmenter
    split_text,     \* its argument text
    split_max,      \* its argument max_words
    split_out,      \* the returned list of chunks
    fb_pc,          \* "idle" | "call" | "done": a direct call of the fallback
    fb_sentences,   \* its argument sentences
    fb_probe,       \* what the duration probe answers during the call
    fb_out,         \* the returned segments with the loop's unrounded values
    pc,             \* position of the request in its handler
    endpoint,       \* "none" | "align" | "render"
    request,        \* the request: api_key, script_text, language, segments, style_preset
    files,          \* the files that exist in the temp directory
    video_path,     \* handler local, "None" until assigned
    audio_path,     \* handler local (align)
    ass_path,       \* handler local (render)
    output_path,    \* handler local (render)
    duration,       \* handler local: probed video duration
    exc,            \* the exception in flight
    response,       \* the response of the request
    bg_tasks,       \* paths handed to the background cleanup task
    resolution,     \* handler local (render): probed <<width, height>>
    sent,           \* the file response of /render has been delivered
    language,       \* forced_align local
    sentences,      \* forced_align local
    segments,       \* forced_align local / its return value
    text_file,      \* forced_align local
    output_file,    \* forced_align local
    child,          \* the aligner child process: "none" | "running" | "hung" | "exited"
    aeneas_args,    \* what the aligner was invoked with
    audio_probe,    \* what the duration probe answered in the fallback
    fa_outcome,     \* "none" | "returned" | "raised": how forced_align ended
    aeneas_raised,  \* "none" or the exception class that left _run_aeneas
    calls,          \* how often the aligner, the fallback and the normalizer ran
    norm_pc,        \* "idle" | "call" | "done": a direct call of the normalizer
    norm_segments,  \* its argument segments
    norm_max_chars, \* its argument max_chars
    norm_max_lines, \* its argument max_lines
    norm_out,       \* what the call produced: the exception class and the list
    style_calls,    \* direct calls of get_style_for_resolution, with their results
    gen_pc,         \* "idle" | "call" | "done": a direct call of generate_ass
    gen_segments,   \* its argument segments
    gen_preset,     \* its argument style_preset
    gen_resolution, \* its argument resolution
    gen_out,        \* the returned document
    time_pc,        \* "idle" | "call" | "done": a direct call of _seconds_to_ass_time
    time_ms,        \* its argument, as the decimal number of milliseconds
    time_out        \* the returned time string

split_vars == <<split_pc, split_text, split_max, split_out>>
fb_vars == <<fb_pc, fb_sentences, fb_probe, fb_out>>
path_vars == <<video_path, audio_path, ass_path, output_path>>
fa_vars == <<language, sentences, segments, text_file, output_file, child,
             aeneas_args, audio_probe, fa_outcome, aeneas_raised, calls>>
srv_vars == <<pc, endpoint, request, files, path_vars, duration, exc, response,
              bg_tasks, resolution, sent, fa_vars>>
norm_vars == <<norm_pc, norm_segments, norm_max_chars, norm_max_lines, norm_out>>
gen_vars == <<gen_pc, gen_segments, gen_preset, gen_resolution, gen_out>>
time_vars == <<time_pc, time_ms, time_out>>
lib_vars == <<norm_vars, style_calls, gen_vars, time_vars>>
vars == <<split_vars, fb_vars, srv_vars, lib_vars>>

\* ------------------------------------------------------------ value helpers
NoExc == [cls |-> "none", status |-> 0, msg |-> ""]
Exc(cls, msg) == [cls |-> cls, status |-> 0, msg |-> msg]
HTTPException(status, detail) == [cls |-> "HTTPException", status |-> status, msg |-> detail]

NoResponse ==
    [status |-> 0, detail |-> "", segments |-> <<>>, duration |-> 0, language |-> "",
     path |-> "None"]
ErrorResponse(status, detail) ==
    [status |-> status, detail |-> detail, segments |-> <<>>, duration |-> 0,
     language |-> "", path |-> "None"]

NoArgs == [audio |-> "None", text_file |-> "None", output_file |-> "None", language |-> ""]
NoProbe == [ok |-> FALSE, duration |-> 0]
NoCalls == [aeneas |-> 0, fallback |-> 0, normalize |-> 0]
NoFallback == [duration |-> 0, total_chars |-> 1, sentence_duration |-> <<>>, segments |-> <<>>]

\* What the duration probe can answer: a failure (executable missing, non-zero
\* exit, output that float() rejects), or a finite non-negative duration.
Probes ==
    {NoProbe} \cup {[ok |-> TRUE, duration |-> k * DurStepUs] : k \in 0..MaxDurSteps}

SplitIdle ==
    /\ split_pc = "idle" /\ split_text = <<>> /\ split_max = DefaultMaxWords
    /\ split_out = <<>>

FbIdle ==
    /\ fb_pc = "idle" /\ fb_sentences = <<>> /\ fb_probe = NoProbe /\ fb_out = NoFallback

SrvIdle ==
    /\ pc = "idle" /\ endpoint = "none"
    /\ request = [api_key |-> "", script_text |-> <<>>, language |-> "",
                  segments |-> <<>>, style_preset |-> ""]
    /\ files = {}
    /\ video_path = "None" /\ audio_path = "None"
    /\ ass_path = "None" /\ output_path = "None"
    /\ duration = 0 /\ exc = NoExc /\ response = NoResponse /\ bg_tasks = {}
    /\ resolution = <<0, 0>> /\ sent = FALSE
    /\ language = "" /\ sentences = <<>> /\ segments = <<>>
    /\ text_file = "None" /\ output_file = "None"
    /\ child = "none" /\ aeneas_args = NoArgs /\ audio_probe = NoProbe
    /\ fa_outcome = "none" /\ aeneas_raised = "none" /\ calls = NoCalls

NoNormalized == [exc |-> "none", segments |-> <<>>]

NormIdle ==
    /\ norm_pc = "idle" /\ norm_segments = <<>> /\ norm_max_chars = NormalizeMaxChars
    /\ norm_max_lines = NormalizeMaxLines /\ norm_out = NoNormalized

StyleIdle == style_calls = <<>>

GenIdle ==
    /\ gen_pc = "idle" /\ gen_segments = <<>> /\ gen_preset = ""
    /\ gen_resolution = <<0, 0>> /\ gen_out = <<>>

TimeIdle == time_pc = "idle" /\ time_ms = 0 /\ time_out = <<>>

LibIdle == NormIdle /\ StyleIdle /\ GenIdle /\ TimeIdle

\* ------------------------------------------- direct calls of the segmenter
SplitInit ==
    /\ split_pc = "call"
    /\ split_text \in TextsUpTo(MaxTextLen)
    /\ split_max \in (1..MaxSplitArg) \cup {DefaultMaxWords}
    /\ split_out = <<>>
    /\ FbIdle /\ SrvIdle /\ LibIdle

SplitCall ==
    /\ split_pc = "call"
    /\ split_out' = split_into_sentences(split_text, split_max)
    /\ split_pc' = "done"
    /\ UNCHANGED <<split_text, split_max, fb_vars, srv_vars, lib_vars>>

SplitNext == SplitCall

SpecSplit == SplitInit /\ [][SplitNext]_vars

\* -------------------------------------------- direct calls of the fallback
\* Sentences are chunks as the segmenter produces them: non-empty.
RECURSIVE Repeat(_, _)
Repeat(c, n) == IF n = 0 THEN <<>> ELSE <<c>> \o Repeat(c, n - 1)

ChunkTexts == {Repeat("a", n) : n \in 1..MaxChunkLen}

SentenceLists == UNION {[1..n -> ChunkTexts] : n \in 1..MaxChunks}

FbInit ==
    /\ fb_pc = "call"
    /\ fb_sentences \in SentenceLists
    /\ fb_probe \in Probes
    /\ fb_out = NoFallback
    /\ SplitIdle /\ SrvIdle /\ LibIdle

FbCall ==
    /\ fb_pc = "call"
    /\ fb_out' = fallback_alignment(fb_sentences, fb_probe)
    /\ fb_pc' = "done"
    /\ UNCHANGED <<fb_sentences, fb_probe, split_vars, srv_vars, lib_vars>>

FbNext == FbCall

SpecFallback == FbInit /\ [][FbNext]_vars

\* ------------------------------------------ direct calls of the normalizer
\* Segments are valid Segment objects: start >= 0, end >= 0, text of length
\* >= 1 (whitespace-only texts pass min_length=1).
NormTexts == TextsUpTo(MaxNormTextLen) \ {<<>>}

FirstSegments == {[start |-> 500, end |-> 1200, text |-> t] : t \in NormTexts}

SecondSegments ==
    {[start |-> 2000, end |-> 2500, text |-> t] : t \in {<<"a">>, <<" ">>, <<"a", " ", "a">>}}

NormSegmentLists ==
    {<<>>} \cup {<<f>> : f \in FirstSegments}
           \cup {<<f, g>> : f \in FirstSegments, g \in SecondSegments}

NormInit ==
    /\ norm_pc = "call"
    /\ norm_segments \in NormSegmentLists
    /\ norm_max_chars \in 0..MaxNormChars
    /\ norm_max_lines \in 1..MaxNormLines
    /\ norm_out = NoNormalized
    /\ style_calls = <<>> /\ GenIdle /\ TimeIdle
    /\ SplitIdle /\ FbIdle /\ SrvIdle

NormCall ==
    /\ norm_pc = "call"
    /\ norm_out' = NormalizeCall(norm_segments, norm_max_chars, norm_max_lines)
    /\ norm_pc' = "done"
    /\ UNCHANGED <<norm_segments, norm_max_chars, norm_max_lines, style_calls,
                   gen_vars, time_vars, split_vars, fb_vars, srv_vars>>

NormNext == NormCall

SpecNormalize == NormInit /\ [][NormNext]_vars

\* ----------------------------------------- direct calls of the style store
\* Preset names a caller can pass: the catalog's and one that is absent.
PresetNames == AVAILABLE_PRESETS \cup {"no_such_preset"}

\* Common landscape and portrait video sizes.
StyleResolutions ==
    {<<640, 360>>, <<854, 480>>, <<960, 720>>, <<1280, 720>>, <<1920, 1080>>,
     <<2560, 1440>>, <<1080, 1920>>}

\* Variant in which the preset objects are shared between calls: a call
\* scales the object an earlier call for the same preset has already scaled.
ResolveCallShared ==
    /\ Len(style_calls) < MaxStyleCalls
    /\ \E preset_name \in PresetNames, res \in StyleResolutions :
          LET Resolved(n) == IF n \in AVAILABLE_PRESETS THEN n ELSE "tiktok_clean"
              earlier == {i \in 1..Len(style_calls) :
                            Resolved(style_calls[i].preset_name) = Resolved(preset_name)}
              shared == IF earlier = {} THEN get_style_presets[Resolved(preset_name)]
                        ELSE style_calls[CHOOSE i \in earlier : \A j \in earlier : j <= i].style
          IN  style_calls' = Append(style_calls,
                [ preset_name |-> preset_name, width |-> res[1], height |-> res[2],
                  style |-> [shared EXCEPT !.fontsize = ScaleInt(@, res[2]),
                                           !.margin_v = ScaleInt(@, res[2]),
                                           !.outline = ScaleTenths(@, res[2]),
                                           !.shadow = ScaleTenths(@, res[2])] ])
    /\ UNCHANGED <<norm_vars, gen_vars, time_vars, split_vars, fb_vars, srv_vars>>

ResolveCall ==
    /\ Len(style_calls) < MaxStyleCalls
    /\ \E preset_name \in PresetNames, res \in StyleResolutions :
          style_calls' = Append(style_calls,
              [ preset_name |-> preset_name, width |-> res[1], height |-> res[2],
                style |-> get_style_for_resolution(preset_name, res[1], res[2]) ])
    /\ UNCHANGED <<norm_vars, gen_vars, time_vars, split_vars, fb_vars, srv_vars>>

\* --------------------------------------------- direct calls of generate_ass
GenCall ==
    /\ gen_pc = "call"
    /\ gen_out' = generate_ass(gen_segments, gen_preset, gen_resolution)
    /\ gen_pc' = "done"
    /\ UNCHANGED <<gen_segments, gen_preset, gen_resolution, norm_vars, style_calls,
                   time_vars, split_vars, fb_vars, srv_vars>>

\* Segment texts: letters, a comma and line breaks, as the normalizer's
\* wrapped texts have them.
GenChars == {"a", ",", "\n"}

RECURSIVE GenTextsUpTo(_)
GenTextsUpTo(n) ==
    IF n = 0 THEN {<<>>}
    ELSE LET shorter == GenTextsUpTo(n - 1)
         IN  shorter \cup {Append(t, c) : t \in {u \in shorter : Len(u) = n - 1},
                                            c \in GenChars}

GenTexts == GenTextsUpTo(MaxGenTextLen) \ {<<>>}

GenFirstSegments == {[start |-> 0, end |-> 1250, text |-> t] : t \in GenTexts}

GenSecondSegments ==
    {[start |-> 1250, end |-> 3665000, text |-> t] : t \in {<<"a">>, <<"a", "\n", ",">>}}

GenSegmentLists ==
    {<<>>} \cup {<<f>> : f \in GenFirstSegments}
           \cup {<<f, g>> : f \in GenFirstSegments, g \in GenSecondSegments}

GenInit ==
    /\ gen_pc = "call"
    /\ gen_segments \in GenSegmentLists
    /\ gen_preset \in PresetNames
    /\ gen_resolution \in StyleResolutions
    /\ gen_out = <<>>
    /\ NormIdle /\ StyleIdle /\ TimeIdle
    /\ SplitIdle /\ FbIdle /\ SrvIdle

GenNext == GenCall

SpecGenerate == GenInit /\ [][GenNext]_vars

\* The style store and the generator's use of it, called side by side.
StyleInit ==
    /\ style_calls = <<>>
    /\ gen_pc = "call"
    /\ gen_segments \in {<<g>> : g \in GenSecondSegments}
    /\ gen_preset \in PresetNames
    /\ gen_resolution \in {r \in StyleResolutions : r[1] >= 1280}
    /\ gen_out = <<>>
    /\ NormIdle /\ TimeIdle
    /\ SplitIdle /\ FbIdle /\ SrvIdle

StyleNext == ResolveCall \/ GenCall

SpecStyle == StyleInit /\ [][StyleNext]_vars

\* ------------------------------------ direct calls of _seconds_to_ass_time
\* Arguments are decimal numbers of seconds with up to three decimals: the
\* fallback's round(x, 3) values and the tests' examples.
TimeInputs == (0..MaxTimeMs) \cup {1990, 5500, 65250, 3665000}

TimeInit ==
    /\ time_pc = "call"
    /\ time_ms \in TimeInputs
    /\ time_out = <<>>
    /\ NormIdle /\ StyleIdle /\ GenIdle
    /\ SplitIdle /\ FbIdle /\ SrvIdle

TimeCall ==
    /\ time_pc = "call"
    /\ time_out' = seconds_to_ass_time(time_ms)
    /\ time_pc' = "done"
    /\ UNCHANGED <<time_ms, norm_vars, style_calls, gen_vars, split_vars, fb_vars,
                   srv_vars>>

TimeNext == TimeCall

SpecTime == TimeInit /\ [][TimeNext]_vars

\* ------------------------------------------------------- request handling
MaxVideoDurationUs == 60000000

ConfiguredApiKey == "change-me-in-production"
ApiKeys == {"None", "wrong-key", ConfiguredApiKey}
RequestLanguages == {"vie", "eng", "xxx"}

\* Script texts of requests: n words of alternating lengths separated by
\* single spaces, a padded variant, and texts without any word.
NthWord(i) == IF i % 2 = 1 THEN <<"a">> ELSE <<"a", "a", ".">>
WordsText(n) == Join(<<" ">>, [i \in 1..n |-> NthWord(i)])
ScriptTexts ==
    {WordsText(n) : n \in 0..MaxScriptWords}
        \cup {<<" ">>, <<" ", "\n">>, <<"\n", "a", " ", " ", "a", " ">>}

\* Variant that only requires the header to be present.
verify_api_key_present_only(api_key) ==
    IF api_key = "None" THEN HTTPException(401, "Missing API key. Provide X-API-Key header.")
    ELSE NoExc

\* verify_api_key: the 401 it raises, or no exception
verify_api_key(api_key) ==
    IF api_key = "None" THEN HTTPException(401, "Missing API key. Provide X-API-Key header.")
    ELSE IF api_key # ConfiguredApiKey THEN HTTPException(401, "Invalid API key")
    ELSE NoExc

\* POST /align arrives: the API-key dependency, then validation of the body
\* (script_text has min_length=1), then the handler starts.
ReceiveAlign ==
    /\ pc = "idle"
    /\ \E key \in ApiKeys, script \in ScriptTexts, lang \in RequestLanguages :
          /\ request' = [api_key |-> key, script_text |-> script, language |-> lang,
                         segments |-> <<>>, style_preset |-> ""]
          /\ IF verify_api_key(key) # NoExc
             THEN /\ response' = ErrorResponse(401, verify_api_key(key).msg)
                  /\ pc' = "done"
             ELSE IF Len(script) < 1
             THEN /\ response' = ErrorResponse(422, "string_too_short")
                  /\ pc' = "done"
             ELSE /\ response' = response
                  /\ pc' = "download"
    /\ endpoint' = "align"
    /\ UNCHANGED <<files, path_vars, duration, exc, bg_tasks, resolution, sent, fa_vars,
                   split_vars, fb_vars, lib_vars>>

\* Where an exception raised inside the handler's try block lands.
ExceptPc == IF endpoint = "align" THEN "align_except" ELSE "render_except"

\* download_video: the GET fails before the file is opened, or the file is
\* created and the write fails, or the file is written and its path returned.
Download ==
    /\ pc = "download"
    /\ \E outcome \in {"ok", "http_error", "write_error"} :
          CASE outcome = "ok" ->
                  /\ files' = files \cup {"input.mp4"}
                  /\ video_path' = "input.mp4"
                  /\ exc' = exc
                  /\ pc' = "probe_duration"
            [] outcome = "http_error" ->
                  /\ exc' = Exc("VideoError", "Failed to download video")
                  /\ pc' = ExceptPc
                  /\ UNCHANGED <<files, video_path>>
            [] outcome = "write_error" ->
                  /\ files' = files \cup {"input.mp4"}
                  /\ exc' = Exc("VideoError", "Unexpected error downloading video")
                  /\ pc' = ExceptPc
                  /\ UNCHANGED video_path
    /\ UNCHANGED <<endpoint, request, audio_path, ass_path, output_path, duration,
                   response, bg_tasks, resolution, sent, fa_vars, split_vars, fb_vars, lib_vars>>

VideoDurations == {MaxVideoDurationUs, MaxVideoDurationUs + 1}

\* get_video_duration and the handler's duration check
ProbeDuration ==
    /\ pc = "probe_duration"
    /\ \/ \E d \in VideoDurations :
             /\ duration' = d
             /\ IF d > MaxVideoDurationUs
                THEN /\ exc' = HTTPException(413, "Video too long")
                     /\ pc' = ExceptPc
                ELSE /\ exc' = exc
                     /\ pc' = IF endpoint = "align" THEN "extract_audio"
                              ELSE "probe_resolution"
       \/ \E msg \in {"FFprobe not found. Please install FFmpeg.",
                      "Could not determine video duration"} :
             /\ exc' = Exc("VideoError", msg)
             /\ pc' = ExceptPc
             /\ UNCHANGED duration
    /\ UNCHANGED <<endpoint, request, files, path_vars, response, bg_tasks, resolution, sent, fa_vars,
                   split_vars, fb_vars, lib_vars>>

\* extract_audio: ffmpeg writes <video>.wav; on a non-zero exit the file may
\* or may not have been created, and the path is not returned.
ExtractAudio ==
    /\ pc = "extract_audio"
    /\ \E outcome \in {"ok", "not_found", "failed", "failed_partial"} :
          CASE outcome = "ok" ->
                  /\ files' = files \cup {"input.wav"}
                  /\ audio_path' = "input.wav"
                  /\ exc' = exc
                  /\ pc' = "fa_enter"
            [] outcome = "not_found" ->
                  /\ exc' = Exc("VideoError", "FFmpeg not found. Please install FFmpeg.")
                  /\ pc' = ExceptPc
                  /\ UNCHANGED <<files, audio_path>>
            [] outcome = "failed" ->
                  /\ exc' = Exc("VideoError", "FFmpeg audio extraction failed")
                  /\ pc' = ExceptPc
                  /\ UNCHANGED <<files, audio_path>>
            [] outcome = "failed_partial" ->
                  /\ files' = files \cup {"input.wav"}
                  /\ exc' = Exc("VideoError", "FFmpeg audio extraction failed")
                  /\ pc' = ExceptPc
                  /\ UNCHANGED audio_path
    /\ UNCHANGED <<endpoint, request, video_path, ass_path, output_path, duration,
                   response, bg_tasks, resolution, sent, fa_vars, split_vars, fb_vars, lib_vars>>

\* ------------------------------------------------- forced_align, stepwise
\* What a step of forced_align leaves alone in the calling handler.
caller_vars == <<endpoint, request, path_vars, duration, response, bg_tasks,
                 resolution, sent, split_vars, fb_vars, lib_vars>>

\* Lines 136-155: language validation, segmentation, the empty check (outside
\* the try block) and the choice of the two artifact names.
FaEnter ==
    /\ pc = "fa_enter"
    /\ language' = ValidateLanguage(request.language)
    /\ LET chunks == split_into_sentences(request.script_text, DefaultMaxWords)
       IN  /\ sentences' = chunks
           /\ IF chunks = <<>>
              THEN /\ exc' = Exc("AlignmentError", "No sentences found in script text")
                   /\ fa_outcome' = "raised"
                   /\ pc' = ExceptPc
                   /\ UNCHANGED <<text_file, output_file>>
              ELSE /\ text_file' = "text.txt"
                   /\ output_file' = "output.json"
                   /\ pc' = "fa_write_text"
                   /\ UNCHANGED <<exc, fa_outcome>>
    /\ UNCHANGED <<caller_vars, files, segments, child, aeneas_args, audio_probe,
                   aeneas_raised, calls>>

\* Lines 159-161: the chunk-text file is opened for writing and filled.  The
\* open may fail (nothing created) and a write may fail (file created).
FaWriteText ==
    /\ pc = "fa_write_text"
    /\ \E outcome \in {"ok", "open_error", "write_error"} :
          /\ files' = IF outcome = "open_error" THEN files ELSE files \cup {text_file}
          /\ exc' = IF outcome = "ok" THEN exc ELSE Exc("OSError", outcome)
          /\ pc' = IF outcome = "ok" THEN "fa_spawn" ELSE "fa_finally"
    /\ UNCHANGED <<caller_vars, fa_vars>>

\* Variant that starts the aligner a second time before falling back.
AeneasRaisedRetry(cls) ==
    LET raised == RunAeneasReraise(cls)
    IN  /\ aeneas_raised' = raised
        /\ IF AeneasExceptCatches(raised)
           THEN /\ pc' = IF calls.aeneas = 0 THEN "fa_spawn" ELSE "fa_fallback"
                /\ exc' = exc
           ELSE /\ pc' = "fa_finally"
                /\ exc' = Exc(raised, "Aeneas failed")

\* An exception cls leaves _run_aeneas (after its own except clauses) and
\* meets the `except Exception` of forced_align.
AeneasRaised(cls) ==
    LET raised == RunAeneasReraise(cls)
    IN  /\ aeneas_raised' = raised
        /\ IF AeneasExceptCatches(raised)
           THEN /\ pc' = "fa_fallback"
                /\ exc' = exc
           ELSE /\ pc' = "fa_finally"
                /\ exc' = Exc(raised, "Aeneas failed")

\* Lines 165-170 and 215-230: _run_aeneas builds the command and starts the
\* child process; the executable may be missing.  A started child either
\* terminates at some point or never does.
FaSpawn ==
    /\ pc = "fa_spawn"
    /\ calls' = [calls EXCEPT !.aeneas = @ + 1]
    /\ aeneas_args' = [audio |-> audio_path, text_file |-> text_file,
                       output_file |-> output_file, language |-> language]
    /\ \E outcome \in {"running", "hung", "not_found"} :
          IF outcome = "not_found"
          THEN /\ AeneasRaised("FileNotFoundError")
               /\ UNCHANGED child
          ELSE /\ child' = outcome
               /\ pc' = "fa_await"
               /\ UNCHANGED <<exc, aeneas_raised>>
    /\ UNCHANGED <<caller_vars, files, language, sentences, segments, text_file,
                   output_file, audio_probe, fa_outcome>>

\* What the aligner can leave behind for a list of sentences.
Faithful(sents) ==
    [i \in 1..Len(sents) |->
        [begin |-> (i - 1) * 1000, end |-> i * 1000, lines |-> <<sents[i]>>]]

FragmentLists(sents) ==
    LET f == Faithful(sents)
    IN  { f, <<>>,
          [f EXCEPT ![1].lines = << <<" ">> >>],
          [f EXCEPT ![1].lines = <<>>],
          [f EXCEPT ![1].begin = 0 - 1],
          [f EXCEPT ![1].begin = 1000, ![1].end = 0] }

ChildResults(sents) ==
    {[returncode |-> rc, wrote |-> w, fragments |-> <<>>] :
        rc \in {0, 1}, w \in {"nothing", "garbage"}}
    \cup {[returncode |-> 0, wrote |-> "fragments", fragments |-> fl] :
            fl \in FragmentLists(sents)}

\* Lines 231-259: communicate() returns once the child has exited; the return
\* code is checked, the output file is opened and parsed.
FaAwait ==
    /\ pc = "fa_await"
    /\ child = "running"
    /\ child' = "exited"
    /\ \E result \in ChildResults(sentences) :
          /\ files' = IF result.wrote = "nothing" THEN files
                      ELSE files \cup {output_file}
          /\ IF result.returncode # 0
             THEN AeneasRaised("AlignmentError") /\ UNCHANGED segments
             ELSE IF result.wrote = "nothing"
             THEN AeneasRaised("FileNotFoundError") /\ UNCHANGED segments
             ELSE IF result.wrote = "garbage"
             THEN AeneasRaised("JSONDecodeError") /\ UNCHANGED segments
             ELSE LET parsed == ParseFragments(result.fragments)
                  IN  IF parsed.exc # "none"
                      THEN AeneasRaised(parsed.exc) /\ UNCHANGED segments
                      ELSE /\ segments' = parsed.segments
                           /\ pc' = "fa_normalize"
                           /\ UNCHANGED <<exc, aeneas_raised>>
    /\ UNCHANGED <<caller_vars, language, sentences, text_file, output_file,
                   aeneas_args, audio_probe, fa_outcome, calls>>

\* Line 173: the fallback, with whatever the duration probe answers.
FaFallback ==
    /\ pc = "fa_fallback"
    /\ calls' = [calls EXCEPT !.fallback = @ + 1]
    /\ \E probe \in Probes :
          /\ audio_probe' = probe
          /\ segments' = fallback_alignment(sentences, probe).segments
    /\ pc' = "fa_normalize"
    /\ UNCHANGED <<caller_vars, files, exc, language, sentences, text_file,
                   output_file, child, aeneas_args, fa_outcome, aeneas_raised>>

\* Lines 176-179: the normalizer; a Segment it cannot construct raises.
FaNormalize ==
    /\ pc = "fa_normalize"
    /\ calls' = [calls EXCEPT !.normalize = @ + 1]
    /\ LET normalized == normalize_segments(segments, NormalizeMaxChars, NormalizeMaxLines)
       IN  IF \A i \in 1..Len(normalized) : SegmentValid(normalized[i])
           THEN /\ segments' = normalized
                /\ exc' = exc
           ELSE /\ exc' = Exc("ValidationError", "Segment")
                /\ UNCHANGED segments
    /\ pc' = "fa_finally"
    /\ UNCHANGED <<caller_vars, files, language, sentences, text_file, output_file,
                   child, aeneas_args, audio_probe, fa_outcome, aeneas_raised>>

\* Lines 181-188: the finally block, then the return or the propagation.
FaFinally ==
    /\ pc = "fa_finally"
    /\ files' = FinallyUnlink(files, text_file, output_file)
    /\ IF exc = NoExc
       THEN /\ fa_outcome' = "returned"
            /\ pc' = "align_result"
       ELSE /\ fa_outcome' = "raised"
            /\ pc' = ExceptPc
    /\ UNCHANGED <<caller_vars, exc, language, sentences, segments, text_file,
                   output_file, child, aeneas_args, audio_probe, aeneas_raised, calls>>

\* ---------------------------------------------------------- align_endpoint
\* Lines 77-89: an empty result is a 400, otherwise the response is built.
AlignResult ==
    /\ pc = "align_result"
    /\ IF segments = <<>>
       THEN /\ exc' = HTTPException(400, "No segments could be aligned. Check your script text.")
            /\ pc' = "align_except"
            /\ UNCHANGED response
       ELSE /\ response' = [status |-> 200, detail |-> "", segments |-> segments,
                            duration |-> duration, language |-> request.language,
                            path |-> "None"]
            /\ pc' = "align_finally"
            /\ UNCHANGED exc
    /\ UNCHANGED <<endpoint, request, files, path_vars, duration, bg_tasks, resolution, sent, fa_vars,
                   split_vars, fb_vars, lib_vars>>

\* Variant that has no clause for AlignmentError.
AlignExceptResponseNoAlignmentError(e) ==
    IF e.cls = "VideoError" THEN ErrorResponse(400, e.msg)
    ELSE IF e.cls = "HTTPException" THEN ErrorResponse(e.status, e.msg)
    ELSE ErrorResponse(500, "An unexpected error occurred during alignment")

\* Lines 91-110: the except clauses of the handler
AlignExceptResponse(e) ==
    IF e.cls \in {"VideoError", "AlignmentError"} THEN ErrorResponse(400, e.msg)
    ELSE IF e.cls = "HTTPException" THEN ErrorResponse(e.status, e.msg)
    ELSE ErrorResponse(500, "An unexpected error occurred during alignment")

AlignExcept ==
    /\ pc = "align_except"
    /\ response' = AlignExceptResponse(exc)
    /\ pc' = "align_finally"
    /\ UNCHANGED <<endpoint, request, files, path_vars, duration, exc, bg_tasks,
                   resolution, sent, fa_vars, split_vars, fb_vars, lib_vars>>

\* Lines 111-113: finally: cleanup_files(video_path, audio_path)
AlignFinally ==
    /\ pc = "align_finally"
    /\ files' = cleanup_files(files, {video_path, audio_path})
    /\ pc' = "done"
    /\ UNCHANGED <<endpoint, request, path_vars, duration, exc, response, bg_tasks,
                   resolution, sent, fa_vars, split_vars, fb_vars, lib_vars>>

\* --------------------------------------------------------- render_endpoint
RenderSegmentLists ==
    { <<>>,
      << [start |-> 0, end |-> 1000, text |-> <<"a">>] >>,
      << [start |-> 0, end |-> 1000, text |-> <<"a">>],
         [start |-> 1000, end |-> 2500, text |-> <<"a", "\n", "a">>] >> }

StylePresetNames == {"tiktok_clean", "no_such_preset"}

\* POST /render arrives: the API-key dependency, then validation of the body
\* (segments has min_length=1), then the handler starts.
ReceiveRender ==
    /\ pc = "idle"
    /\ \E key \in ApiKeys, segs \in RenderSegmentLists, preset \in StylePresetNames :
          /\ request' = [api_key |-> key, script_text |-> <<>>, language |-> "",
                         segments |-> segs, style_preset |-> preset]
          /\ IF verify_api_key(key) # NoExc
             THEN /\ response' = ErrorResponse(401, verify_api_key(key).msg)
                  /\ pc' = "done"
             ELSE IF Len(segs) < 1
             THEN /\ response' = ErrorResponse(422, "too_short")
                  /\ pc' = "done"
             ELSE /\ response' = response
                  /\ pc' = "download"
    /\ endpoint' = "render"
    /\ UNCHANGED <<files, path_vars, duration, exc, bg_tasks, resolution, sent, fa_vars,
                   split_vars, fb_vars, lib_vars>>

Resolutions == {<<1920, 1080>>, <<1280, 720>>}

\* get_video_resolution
ProbeResolution ==
    /\ pc = "probe_resolution"
    /\ \/ \E r \in Resolutions :
             /\ resolution' = r
             /\ pc' = "save_ass"
             /\ UNCHANGED exc
       \/ \E msg \in {"FFprobe not found. Please install FFmpeg.",
                      "Could not determine video resolution"} :
             /\ exc' = Exc("VideoError", msg)
             /\ pc' = "render_except"
             /\ UNCHANGED resolution
    /\ UNCHANGED <<endpoint, request, files, path_vars, duration, response, bg_tasks,
                   sent, fa_vars, split_vars, fb_vars, lib_vars>>

\* Lines 89-95: ass_path is assigned, then save_ass_file opens and writes it.
SaveAss ==
    /\ pc = "save_ass"
    /\ ass_path' = "input.ass"
    /\ \E outcome \in {"ok", "open_error", "write_error"} :
          /\ files' = IF outcome = "open_error" THEN files ELSE files \cup {"input.ass"}
          /\ exc' = IF outcome = "ok" THEN exc ELSE Exc("OSError", outcome)
          /\ pc' = IF outcome = "ok" THEN "render_subtitles" ELSE "render_except"
    /\ UNCHANGED <<endpoint, request, video_path, audio_path, output_path, duration,
                   response, bg_tasks, resolution, sent, fa_vars, split_vars, fb_vars, lib_vars>>

\* render_subtitles: ffmpeg writes a freshly named output file; the path is
\* returned only on success.  A failing run may leave a partial file.
RenderSubtitles ==
    /\ pc = "render_subtitles"
    /\ \E outcome \in {"ok", "not_found", "failed", "failed_partial", "no_output"} :
          CASE outcome = "ok" ->
                  /\ files' = files \cup {"output.mp4"}
                  /\ output_path' = "output.mp4"
                  /\ pc' = "render_schedule"
                  /\ UNCHANGED exc
            [] outcome = "not_found" ->
                  /\ exc' = Exc("RenderError", "FFmpeg not found. Please install FFmpeg.")
                  /\ pc' = "render_except"
                  /\ UNCHANGED <<files, output_path>>
            [] outcome = "failed" ->
                  /\ exc' = Exc("RenderError", "FFmpeg render failed")
                  /\ pc' = "render_except"
                  /\ UNCHANGED <<files, output_path>>
            [] outcome = "failed_partial" ->
                  /\ files' = files \cup {"output.mp4"}
                  /\ exc' = Exc("RenderError", "FFmpeg render failed")
                  /\ pc' = "render_except"
                  /\ UNCHANGED output_path
            [] outcome = "no_output" ->
                  /\ exc' = Exc("RenderError", "Output file was not created")
                  /\ pc' = "render_except"
                  /\ UNCHANGED <<files, output_path>>
    /\ UNCHANGED <<endpoint, request, video_path, audio_path, ass_path, duration,
                   response, bg_tasks, resolution, sent, fa_vars, split_vars, fb_vars, lib_vars>>

\* Variant that deletes the files when the cleanup is scheduled.
RenderScheduleCleansNow ==
    /\ pc = "render_schedule"
    /\ bg_tasks' = {video_path, ass_path, output_path} \ {"None"}
    /\ files' = cleanup_files(files, {video_path, ass_path, output_path})
    /\ response' = [status |-> 200, detail |-> "", segments |-> <<>>, duration |-> 0,
                    language |-> "", path |-> output_path]
    /\ pc' = "send_response"
    /\ UNCHANGED <<endpoint, request, path_vars, duration, exc, resolution,
                   sent, fa_vars, split_vars, fb_vars, lib_vars>>

\* Lines 100-111: the cleanup is scheduled as a background task and the file
\* response is returned.
RenderSchedule ==
    /\ pc = "render_schedule"
    /\ bg_tasks' = {video_path, ass_path, output_path} \ {"None"}
    /\ response' = [status |-> 200, detail |-> "", segments |-> <<>>, duration |-> 0,
                    language |-> "", path |-> output_path]
    /\ pc' = "send_response"
    /\ UNCHANGED <<endpoint, request, files, path_vars, duration, exc, resolution,
                   sent, fa_vars, split_vars, fb_vars, lib_vars>>

\* Lines 113-136: every except clause cleans up what the handler knows of
RenderExceptResponse(e) ==
    IF e.cls \in {"VideoError", "RenderError"} THEN ErrorResponse(400, e.msg)
    ELSE IF e.cls = "HTTPException" THEN ErrorResponse(e.status, e.msg)
    ELSE ErrorResponse(500, "An unexpected error occurred during rendering")

RenderExcept ==
    /\ pc = "render_except"
    /\ files' = cleanup_files(files, {video_path, ass_path, output_path})
    /\ response' = RenderExceptResponse(exc)
    /\ pc' = "done"
    /\ UNCHANGED <<endpoint, request, path_vars, duration, exc, bg_tasks, resolution,
                   sent, fa_vars, split_vars, fb_vars, lib_vars>>

\* The framework sends the file response, then runs the background tasks.
SendResponse ==
    /\ pc = "send_response"
    /\ sent' = TRUE
    /\ pc' = "background_cleanup"
    /\ UNCHANGED <<endpoint, request, files, path_vars, duration, exc, response,
                   bg_tasks, resolution, fa_vars, split_vars, fb_vars, lib_vars>>

\* cleanup_task(paths)
BackgroundCleanup ==
    /\ pc = "background_cleanup"
    /\ files' = cleanup_files(files, bg_tasks)
    /\ pc' = "done"
    /\ UNCHANGED <<endpoint, request, path_vars, duration, exc, response, bg_tasks,
                   resolution, sent, fa_vars, split_vars, fb_vars, lib_vars>>

\* ------------------------------------------------------------- list_styles
\* GET /styles arrives: the API-key dependency, then the preset list is
\* returned (status 200; the body is not part of the response record).
ReceiveStyles ==
    /\ pc = "idle"
    /\ \E key \in ApiKeys :
          /\ request' = [api_key |-> key, script_text |-> <<>>, language |-> "",
                         segments |-> <<>>, style_preset |-> ""]
          /\ response' = IF verify_api_key(key) # NoExc
                          THEN ErrorResponse(401, verify_api_key(key).msg)
                          ELSE [NoResponse EXCEPT !.status = 200]
    /\ endpoint' = "styles"
    /\ pc' = "done"
    /\ UNCHANGED <<files, path_vars, duration, exc, bg_tasks, resolution, sent, fa_vars,
                   split_vars, fb_vars, lib_vars>>

Init == SrvIdle /\ SplitIdle /\ FbIdle /\ LibIdle

Next ==
    \/ ReceiveAlign
    \/ Download
    \/ ProbeDuration
    \/ ExtractAudio
    \/ FaEnter
    \/ FaWriteText
    \/ FaSpawn
    \/ FaAwait
    \/ FaFallback
    \/ FaNormalize
    \/ FaFinally
    \/ AlignResult
    \/ AlignExcept
    \/ AlignFinally
    \/ ReceiveRender
    \/ ProbeResolution
    \/ SaveAss
    \/ RenderSubtitles
    \/ RenderSchedule
    \/ RenderExcept
    \/ SendResponse
    \/ BackgroundCleanup
    \/ ReceiveStyles

Spec == Init /\ [][Next]_vars

\* The event loop runs every handler step that is ready, and a child process
\* that is going to exit does exit; nothing forces a hung child to.
FairSpec ==
    /\ Spec
    /\ WF_vars(Download) /\ WF_vars(ProbeDuration) /\ WF_vars(ExtractAudio)
    /\ WF_vars(FaEnter) /\ WF_vars(FaWriteText) /\ WF_vars(FaSpawn)
    /\ WF_vars(FaAwait) /\ WF_vars(FaFallback) /\ WF_vars(FaNormalize)
    /\ WF_vars(FaFinally) /\ WF_vars(AlignResult) /\ WF_vars(AlignExcept)
    /\ WF_vars(AlignFinally) /\ WF_vars(ProbeResolution) /\ WF_vars(SaveAss)
    /\ WF_vars(RenderSubtitles) /\ WF_vars(RenderSchedule) /\ WF_vars(RenderExcept)
    /\ WF_vars(SendResponse) /\ WF_vars(BackgroundCleanup)

\* ================================================================= claims
Abs(x) == IF x < 0 THEN 0 - x ELSE x

\* The last segment's end (ms) agrees with a time t (microseconds) within
\* rounding to the millisecond.
WithinMsRounding(end_ms, t_us) == Abs(end_ms * 1000 - t_us) <= 500

FbSegs == fb_out.segments
FbN == Len(fb_sentences)

\* Loop iteration i used the 0.5 s floor instead of the proportional share.
Floored(i) ==
    Len(fb_sentences[i]) * fb_out.duration < MinSentenceDurationUs * fb_out.total_chars

FallbackShape ==
    /\ Len(FbSegs) = FbN
    /\ \A i \in 1..FbN : FbSegs[i].text = fb_sentences[i]
    /\ FbSegs[1].start = 0
    /\ \A i \in 1..(FbN - 1) : FbSegs[i].end = FbSegs[i + 1].start

\* C3 as stated: the fallback over N >= 1 chunks yields N segments in chunk
\* order, starting at 0, contiguous, and the last end equals the estimated
\* total duration D within millisecond rounding.
C3_FallbackCoversExactlyDuration ==
    fb_pc = "done" =>
        /\ FallbackShape
        /\ WithinMsRounding(FbSegs[FbN].end, fb_out.duration)

\* C3 amended: the fallback over N >= 1 chunks yields N segments in chunk
\* order, starting at 0, contiguous; the last end equals, within millisecond
\* rounding, the sum of the allotted durations max(share, 0.5 s), which is
\* never less than D and equals D when no chunk's share is below 0.5 s.
C3_FallbackContiguousAtLeastDuration ==
    fb_pc = "done" =>
        /\ FallbackShape
        /\ FbSegs[FbN].end * 1000 >= fb_out.duration - 500
        /\ (\A i \in 1..FbN : ~Floored(i))
              => WithinMsRounding(FbSegs[FbN].end, fb_out.duration)
        /\ \A i \in 1..FbN : FbSegs[i].start <= FbSegs[i].end

\* A fallback call in which a short chunk was floored, so that the timeline
\* runs past the estimated duration.
C3_Witness ==
    /\ fb_pc = "done"
    /\ FbN >= 2
    /\ \E i \in 1..FbN : Floored(i)
    /\ FbSegs[FbN].end * 1000 > fb_out.duration + 500
    /\ FbSegs[2].start > 0

\* C4: within one fallback call (fixed total character count and duration) a
\* chunk that is no shorter than another is allotted no less time before
\* rounding, and no chunk is allotted less than 0.5 s.
C4_DurationMonotoneWithFloor ==
    fb_pc = "done" =>
        /\ \A i, j \in 1..FbN :
              Len(fb_sentences[i]) <= Len(fb_sentences[j])
                 => fb_out.sentence_duration[i] <= fb_out.sentence_duration[j]
        /\ \A i \in 1..FbN :
              fb_out.sentence_duration[i] >= MinSentenceDurationUs * fb_out.total_chars

\* A call with a floored chunk next to a longer chunk that got strictly more.
C4_Witness ==
    /\ fb_pc = "done"
    /\ \E i, j \in 1..FbN :
          /\ Len(fb_sentences[i]) < Len(fb_sentences[j])
          /\ Floored(i)
          /\ fb_out.sentence_duration[i] = MinSentenceDurationUs * fb_out.total_chars
          /\ fb_out.sentence_duration[i] < fb_out.sentence_duration[j]

RECURSIVE FirstSentenceEnd(_, _)
FirstSentenceEnd(t, i) ==
    IF i > Len(t) THEN Len(t)
    ELSE IF t[i] \in Terminators /\ (i = Len(t) \/ t[i + 1] \in Whitespace) THEN i
    ELSE FirstSentenceEnd(t, i + 1)

RECURSIVE SentencesOf(_)
SentencesOf(text) ==
    LET t == Strip(text)
    IN  IF t = <<>> THEN <<>>
        ELSE LET e == FirstSentenceEnd(t, 1)
             IN  <<SubSeq(t, 1, e)>> \o SentencesOf(SubSeq(t, e + 1, Len(t)))

\* C10: called with its default arguments the segmenter returns one element
\* per sentence of the text, each with its terminator.
C10_DefaultSplitIsPerSentence ==
    (split_pc = "done" /\ split_max = DefaultMaxWords)
        => split_out = SentencesOf(split_text)

ForcedAlignArtifacts == {"text.txt", "output.json"}
MediaArtifacts == {"input.mp4", "input.wav", "input.ass", "output.mp4"}

\* C1: once the aligner has failed in any way (chunks exist, or it would not
\* have been invoked), no exception is in flight, the fallback runs, and
\* forced_align returns the normalized fallback segments.
C1_AlignerFailureFallsBack ==
    aeneas_raised # "none" =>
        /\ sentences # <<>>
        /\ exc = NoExc
        /\ pc # "align_except"
        /\ fa_outcome # "raised"
        /\ pc # "fa_fallback" => calls.fallback = 1
        /\ fa_outcome = "returned" =>
              segments = normalize_segments(
                             fallback_alignment(sentences, audio_probe).segments,
                             NormalizeMaxChars, NormalizeMaxLines)

\* forced_align has returned two fallback segments after the aligner's output
\* made the parser raise something other than AlignmentError.
C1_Witness ==
    /\ fa_outcome = "returned"
    /\ aeneas_raised \notin {"none", "AlignmentError"}
    /\ calls.fallback = 1
    /\ Len(segments) = 2

\* C2: a script without any word makes forced_align raise AlignmentError
\* before the aligner, the fallback or any artifact, and /align answers 400
\* with the cause string.
C2_NoChunksIsAlignmentError400 ==
    (endpoint = "align" /\ Split(request.script_text) = <<>>) =>
        /\ calls = NoCalls
        /\ files \cap ForcedAlignArtifacts = {}
        /\ text_file = "None" /\ output_file = "None"
        /\ fa_outcome # "returned"
        /\ fa_outcome = "raised" =>
              /\ exc = Exc("AlignmentError", "No sentences found in script text")
              /\ pc \in {"align_except", "align_finally", "done"}
              /\ pc \in {"align_finally", "done"} =>
                    response = ErrorResponse(400, "No sentences found in script text")

\* /align has answered a whitespace-only script.
C2_Witness ==
    /\ pc = "done"
    /\ endpoint = "align"
    /\ request.script_text = <<" ", "\n">>
    /\ fa_outcome = "raised"
    /\ response.status = 400

\* C5: once forced_align has finished, by return or by exception, neither of
\* its two artifacts exists.
C5_ForcedAlignArtifactsRemoved ==
    fa_outcome # "none" => files \cap ForcedAlignArtifacts = {}

\* forced_align was left by the exception of a failed write into the
\* chunk-text file it had created.
C5_Witness ==
    /\ fa_outcome = "raised"
    /\ exc = Exc("OSError", "write_error")
    /\ text_file = "text.txt"
    /\ text_file \notin files

\* C5, second case: it returned after the aligner had exited and the
\* fallback had run.
C5_WitnessReturned ==
    /\ fa_outcome = "returned"
    /\ child = "exited"
    /\ calls.fallback = 1

\* C6: when a request has finished, none of its media artifacts exists.
C6_MediaArtifactsDeleted ==
    pc = "done" => files \cap MediaArtifacts = {}

\* C7: an aligner invocation that is awaited eventually ends, so that
\* forced_align returns or raises.
C7_AlignerWaitIsBounded ==
    (pc = "fa_await") ~> (fa_outcome # "none")

\* C8: with an unsupported language code forced_align works with "eng", the
\* aligner is invoked with "eng", and the only exceptions that end it are
\* those a supported code meets as well.
C8_UnsupportedLanguageBecomesEng ==
    (endpoint = "align" /\ request.language \notin LANGUAGE_MAP) =>
        /\ language \in {"", "eng"}
        /\ pc \in {"fa_write_text", "fa_spawn", "fa_await", "fa_fallback",
                   "fa_normalize", "fa_finally"} => language = "eng"
        /\ calls.aeneas > 0 => aeneas_args.language = "eng"
        /\ fa_outcome = "raised" => exc.cls \in {"AlignmentError", "OSError"}
        /\ exc.cls = "AlignmentError" => sentences = <<>>

\* forced_align has returned the aligner's segments for a request with an
\* unsupported code.
C8_Witness ==
    /\ request.language = "xxx"
    /\ fa_outcome = "returned"
    /\ calls.aeneas = 1
    /\ calls.fallback = 0
    /\ aeneas_args.language = "eng"

\* ---- normalizer claims
\* str.split(sep) with an explicit separator: the pieces between separators
SplitOn(seq, sep) ==
    LET seps == {i \in 1..Len(seq) : seq[i] = sep}
        Pos(n) == IF n = 0 THEN 0
                  ELSE IF n > Cardinality(seps) THEN Len(seq) + 1
                  ELSE CHOOSE p \in seps : Cardinality({q \in seps : q <= p}) = n
    IN  [n \in 1..(Cardinality(seps) + 1) |-> SubSeq(seq, Pos(n - 1) + 1, Pos(n) - 1)]

NormReturned == norm_pc = "done" /\ norm_out.exc = "none"

\* C11: normalize returns, for every input list, a list of the same length
\* and order whose segments keep the input's start and end, and every input
\* segment whose text length is <= max_chars comes back unchanged.
C11_NormalizeKeepsTimesAndShortTexts ==
    norm_pc = "done" =>
        /\ norm_out.exc = "none"
        /\ Len(norm_out.segments) = Len(norm_segments)
        /\ \A i \in 1..Len(norm_segments) :
              /\ norm_out.segments[i].start = norm_segments[i].start
              /\ norm_out.segments[i].end = norm_segments[i].end
              /\ Len(norm_segments[i].text) <= norm_max_chars
                    => norm_out.segments[i] = norm_segments[i]

LineIsOneWord(line) == \A k \in 1..Len(line) : line[k] \notin Whitespace

\* C12: a segment whose trimmed text is longer than max_chars gets a text of
\* at most max_lines lines, each at most max_chars \div max_lines characters
\* long unless the line is one single word longer than that cap.
C12_LongTextWrappedWithinCaps ==
    NormReturned =>
        \A i \in 1..Len(norm_segments) :
            Len(Strip(norm_segments[i].text)) > norm_max_chars =>
                LET lines == SplitOn(norm_out.segments[i].text, "\n")
                    cap == norm_max_chars \div norm_max_lines
                IN  /\ Len(lines) <= norm_max_lines
                    /\ \A k \in 1..Len(lines) :
                          \/ Len(lines[k]) <= cap
                          \/ LineIsOneWord(lines[k])

\* A long text wrapped into more lines than max_lines, of which the kept
\* ones fill max_lines and one is a single word over the cap.
C12_Witness ==
    /\ NormReturned
    /\ \E i \in 1..Len(norm_segments) :
          LET text == Strip(norm_segments[i].text)
              cap == norm_max_chars \div norm_max_lines
              lines == SplitOn(norm_out.segments[i].text, "\n")
          IN  /\ Len(text) > norm_max_chars
              /\ Len(WrapWords(Split(text), <<>>, <<>>, cap)) > norm_max_lines
              /\ Len(lines) = norm_max_lines /\ norm_max_lines > 1
              /\ \E k \in 1..Len(lines) : Len(lines[k]) > cap

\* C13: normalize is total: on valid Segments, max_chars >= 0 and
\* max_lines >= 1 it returns valid Segments and never raises.
C13_NormalizeIsTotal ==
    norm_pc = "done" =>
        /\ norm_out.exc = "none"
        /\ Len(norm_out.segments) = Len(norm_segments)
        /\ \A i \in 1..Len(norm_out.segments) : SegmentValid(norm_out.segments[i])

\* ---- style store claims
CatalogCalls == {i \in 1..Len(style_calls) : style_calls[i].preset_name \in AVAILABLE_PRESETS}

\* C17: for every catalog preset and height, the resolved font size and
\* vertical margin are base * height / 1080 rounded to the nearest integer,
\* outline and shadow are base * height / 1080 rounded to one decimal.
C17_ScaledValuesAreRoundedToNearest ==
    \A i \in CatalogCalls :
        LET call == style_calls[i]
            base == get_style_presets[call.preset_name]
        IN  /\ call.style.fontsize = RoundHalfEven(base.fontsize * call.height, ReferenceHeight)
            /\ call.style.margin_v = RoundHalfEven(base.margin_v * call.height, ReferenceHeight)
            /\ call.style.outline = RoundHalfEven(base.outline * call.height, ReferenceHeight)
            /\ call.style.shadow = RoundHalfEven(base.shadow * call.height, ReferenceHeight)

\* Pairs of calls for one catalog preset, the first at height 720 and the
\* second at height 1080.
Pairs720And1080 ==
    {p \in CatalogCalls \X CatalogCalls :
        /\ style_calls[p[1]].preset_name = style_calls[p[2]].preset_name
        /\ style_calls[p[1]].height = 720
        /\ style_calls[p[2]].height = 1080}

ScaledFields == {"fontsize", "outline", "shadow", "margin_v"}

SameUnscaledFields(a, b) ==
    \A k \in 1..Len(StyleFields) :
        StyleFields[k] \notin ScaledFields => a[StyleFields[k]] = b[StyleFields[k]]

\* C18 as stated: at 720 font size, outline, shadow and vertical margin are
\* all strictly smaller than at 1080, every other field is identical.
C18_AllFourStrictlySmallerAt720 ==
    \A p \in Pairs720And1080 :
        LET small == style_calls[p[1]].style
            large == style_calls[p[2]].style
        IN  /\ small.fontsize < large.fontsize
            /\ small.outline < large.outline
            /\ small.shadow < large.shadow
            /\ small.margin_v < large.margin_v
            /\ SameUnscaledFields(small, large)

\* C18: at 720 font size, outline and vertical margin are strictly smaller
\* than at 1080, shadow is strictly smaller unless the preset's base shadow
\* is 0 (then it is 0 at both heights); every other field is identical.
C18_SmallerAt720UnlessZero ==
    \A p \in Pairs720And1080 :
        LET small == style_calls[p[1]].style
            large == style_calls[p[2]].style
            base == get_style_presets[style_calls[p[1]].preset_name]
        IN  /\ small.fontsize < large.fontsize
            /\ small.outline < large.outline
            /\ small.margin_v < large.margin_v
            /\ base.shadow # 0 => small.shadow < large.shadow
            /\ base.shadow = 0 => small.shadow = 0 /\ large.shadow = 0
            /\ SameUnscaledFields(small, large)

\* The preset with shadow 0 has been resolved at both heights.
C18_Witness ==
    \E p \in Pairs720And1080 :
        /\ style_calls[p[1]].preset_name = "minimal"
        /\ style_calls[p[1]].style.shadow = 0
        /\ style_calls[p[1]].style.fontsize = 26
        /\ style_calls[p[2]].style.fontsize = 40

\* The call for a name absent from the catalog returned the default
\* preset's values, and generate_ass has run for such a name too.
C19_Witness ==
    /\ gen_pc = "done" /\ gen_preset \notin AVAILABLE_PRESETS
    /\ gen_segments # <<>>
    /\ \E i \in 1..Len(style_calls) :
          /\ style_calls[i].preset_name \notin AVAILABLE_PRESETS
          /\ style_calls[i].height = 720
          /\ style_calls[i].style.fontname = "Inter"
          /\ style_calls[i].style.fontsize = 32
          /\ style_calls[i].style.margin_v = 53

\* C19: for a preset name absent from the catalog, resolve returns what it
\* returns for "tiktok_clean" at the same resolution, and generate returns
\* the document it returns for "tiktok_clean".
C19_UnknownPresetIsTiktokClean ==
    /\ \A i \in 1..Len(style_calls) :
          style_calls[i].preset_name \notin AVAILABLE_PRESETS =>
              style_calls[i].style =
                  get_style_for_resolution("tiktok_clean", style_calls[i].width,
                                           style_calls[i].height)
    /\ (gen_pc = "done" /\ gen_preset \notin AVAILABLE_PRESETS) =>
          gen_out = generate_ass(gen_segments, "tiktok_clean", gen_resolution)

\* ---- time formatting claim
\* C16: every t >= 0 is formatted as H:MM:SS.cc with H = floor(t / 3600)
\* unpadded, MM and SS the minutes and seconds in two digits, and cc the
\* centiseconds of t, truncated.
C16_TimeIsTruncatedToCentiseconds ==
    time_pc = "done" =>
        LET whole == time_ms \div 1000
            cc == (time_ms \div 10) % 100
        IN  time_out =
                <<ToString(whole \div 3600), ":">>
                    \o Digits2((whole % 3600) \div 60) \o <<":">>
                    \o Digits2(whole % 60) \o <<".">> \o Digits2(cc)

\* ---- document claims
DocLines == SplitOn(gen_out, "\n")

StartsWith(line, piece) == line # <<>> /\ line[1] = piece

LinesWith(piece) == {i \in 1..Len(DocLines) : StartsWith(DocLines[i], piece)}

DialogueLines == SelectSeq(DocLines, LAMBDA line : StartsWith(line, "Dialogue: "))

CommaCount(line) == Cardinality({k \in 1..Len(line) : line[k] = ","})

\* What follows the n-th comma of a line
RECURSIVE AfterCommas(_, _)
AfterCommas(line, n) ==
    IF n = 0 \/ line = <<>> THEN line
    ELSE AfterCommas(Tail(line), IF Head(line) = "," THEN n - 1 ELSE n)

\* The n-th comma-separated field of a "Key: a,b,c" line
Field(line, n) == SplitOn(Tail(line), ",")[n]

\* C14: the document has one dialogue line per segment, in order, and the
\* text field of the i-th is the i-th segment's text with each line break
\* replaced by the break token and no other character altered.
C14_OneDialoguePerSegmentTextEscaped ==
    gen_pc = "done" =>
        /\ Len(DialogueLines) = Len(gen_segments)
        /\ CommaCount(gen_out) >= 9 * Len(gen_segments)
        /\ \A i \in 1..Len(gen_segments) :
              LET text == gen_segments[i].text
                  field == AfterCommas(DialogueLines[i], 9)
              IN  /\ CommaCount(DialogueLines[i]) >= 9
                  /\ Len(field) = Len(text)
                  /\ \A k \in 1..Len(text) :
                        field[k] = IF text[k] = "\n" THEN "\\N" ELSE text[k]

\* Two segments, the first with a line break and a comma in its text.
C14_Witness ==
    /\ gen_pc = "done"
    /\ Len(gen_segments) = 2
    /\ gen_segments[1].text = <<"\n", ",">>
    /\ gen_segments[2].text = <<"a", "\n", ",">>
    /\ Len(DialogueLines) = 2
    /\ AfterCommas(DialogueLines[2], 9) = <<"a", "\\N", ",">>

\* C15: for every preset name and resolution the document has the sections
\* [Script Info], [V4+ Styles], [Events] in this order, PlayResX/PlayResY
\* carry the given width and height, the style section holds exactly one
\* style record of 23 comma-separated fields, and every dialogue line has
\* the 10 positional fields and names that style record in its 4th.
C15_DocumentStructure ==
    gen_pc = "done" =>
        LET info == {i \in 1..Len(DocLines) : DocLines[i] = <<"[Script Info]">>}
            styles == {i \in 1..Len(DocLines) : DocLines[i] = <<"[V4+ Styles]">>}
            events == {i \in 1..Len(DocLines) : DocLines[i] = <<"[Events]">>}
            records == LinesWith("Style: ")
        IN  /\ info = {1}
            /\ Cardinality(styles) = 1 /\ Cardinality(events) = 1
            /\ \A a \in styles, b \in events : 1 < a /\ a < b
            /\ \A a \in styles :
                  /\ \E i \in 2..(a - 1) :
                        DocLines[i] = <<"PlayResX: ", ToString(gen_resolution[1])>>
                  /\ \E i \in 2..(a - 1) :
                        DocLines[i] = <<"PlayResY: ", ToString(gen_resolution[2])>>
            /\ Cardinality(LinesWith("PlayResX: ")) = 1
            /\ Cardinality(LinesWith("PlayResY: ")) = 1
            /\ Cardinality(records) = 1
            /\ \A r \in records :
                  /\ \A a \in styles, b \in events : a < r /\ r < b
                  /\ Len(SplitOn(Tail(DocLines[r]), ",")) = 23
                  /\ \A d \in LinesWith("Dialogue: ") :
                        /\ \A b \in events : b < d
                        /\ Len(SplitOn(Tail(DocLines[d]), ",")) >= 10
                        /\ Field(DocLines[d], 4) = Field(DocLines[r], 1)
            /\ Cardinality(LinesWith("Dialogue: ")) = Len(gen_segments)

\* A document for a name outside the catalog at 1280x720 with two
\* dialogues, one of whose texts holds a comma.
C15_Witness ==
    /\ gen_pc = "done"
    /\ gen_preset \notin AVAILABLE_PRESETS
    /\ gen_resolution = <<1280, 720>>
    /\ Len(gen_segments) = 2
    /\ gen_segments[1].text = <<",", "a">>
    /\ \E r \in LinesWith("Style: ") : Field(DocLines[r], 1) = <<"Default">>
    /\ \E d \in LinesWith("Dialogue: ") : Len(SplitOn(Tail(DocLines[d]), ",")) > 10

\* ---- returned segments
WellTimed(segs) ==
    /\ \A i \in 1..Len(segs) : segs[i].start >= 0 /\ segs[i].end >= segs[i].start
    /\ \A i \in 1..(Len(segs) - 1) : segs[i].start <= segs[i + 1].start

\* C20: every Segment that align returns, on the aligner path and on the
\* fallback path, has end >= start >= 0, and the returned sequence is in
\* non-decreasing start order.
C20_ReturnedSegmentsWellTimed ==
    fa_outcome = "returned" => WellTimed(segments)

\* ---- forced_align and the handlers, continued
\* C21: whenever align returns normally, it returns exactly one segment per
\* chunk of the script in chunk order, hence a non-empty list whenever chunks
\* exist, also when the aligner exits successfully without a fragment or
\* with empty-text fragments only.
C21_ReturnedSegmentsCoverChunks ==
    fa_outcome = "returned" =>
        /\ Len(segments) = Len(sentences)
        /\ sentences # <<>> => segments # <<>>
        /\ \A i \in 1..Len(segments) :
              segments[i].text =
                  NormalizedText(sentences[i], NormalizeMaxChars, NormalizeMaxLines)

\* C23: the language field of a successful /align response is the language
\* code the alignment was run with, also when the requested code was
\* unsupported and replaced.
C23_ResponseLanguageIsUsedLanguage ==
    (endpoint = "align" /\ response.status = 200) =>
        /\ response.language = language
        /\ response.language = aeneas_args.language

\* No step of a handler has left a trace: no file, no probed value, no
\* aligner, fallback or normalizer call, nothing scheduled or sent.
NothingPerformed ==
    /\ files = {} /\ bg_tasks = {} /\ ~sent
    /\ video_path = "None" /\ audio_path = "None"
    /\ ass_path = "None" /\ output_path = "None"
    /\ duration = 0 /\ resolution = <<0, 0>>
    /\ calls = NoCalls /\ child = "none" /\ fa_outcome = "none"
    /\ sentences = <<>> /\ segments = <<>>

\* C22: a request to /align, /render or /styles whose X-API-Key header is
\* missing or differs from the configured key is answered with 401, and no
\* download, probe, alignment, document generation or render step runs.
C22_BadKeyIs401AndNothingRuns ==
    (endpoint \in {"align", "render", "styles"} /\ request.api_key # ConfiguredApiKey) =>
        /\ pc = "done"
        /\ response.status = 401
        /\ exc = NoExc
        /\ NothingPerformed

\* A /render request with a wrong key and an otherwise valid body.
C22_Witness ==
    /\ endpoint = "render"
    /\ request.api_key = "wrong-key"
    /\ request.segments # <<>>
    /\ response = ErrorResponse(401, "Invalid API key")
    /\ pc = "done"

CallCountsInOrder ==
    /\ calls.aeneas <= 1 /\ calls.fallback <= 1 /\ calls.normalize <= 1
    /\ calls.fallback = 1 => calls.aeneas = 1 /\ aeneas_raised # "none"
    /\ calls.normalize = 1 => calls.aeneas = 1
    /\ fa_outcome = "returned" =>
          /\ calls.aeneas = 1 /\ calls.normalize = 1
          /\ calls.fallback = 1 <=> aeneas_raised # "none"

CallStepsInOrder ==
    /\ calls'.aeneas # calls.aeneas =>
          /\ pc = "fa_spawn" /\ text_file \in files
          /\ calls.fallback = 0 /\ calls.normalize = 0
    /\ calls'.fallback # calls.fallback =>
          /\ calls.aeneas = 1 /\ aeneas_raised # "none" /\ calls.normalize = 0
    /\ calls'.normalize # calls.normalize => fa_outcome = "none"
    /\ (fa_outcome # "returned" /\ fa_outcome' = "returned") => calls.normalize = 1

\* C24: within one align call the aligner is invoked once, after the
\* chunk-text file has been written, and never again; the fallback runs at
\* most once and only after that invocation has failed; the normalizer runs
\* once, on the segments of the path that produced them, before align returns.
C24_AlignerOnceFallbackOnceNormalizerOnce ==
    [](CallCountsInOrder) /\ [][CallStepsInOrder]_vars

\* align has returned after a failed aligner invocation, the fallback and
\* the normalizer.
C24_Witness ==
    /\ fa_outcome = "returned"
    /\ calls = [aeneas |-> 1, fallback |-> 1, normalize |-> 1]
    /\ aeneas_raised = "AlignmentError"
    /\ Len(segments) = Len(sentences)

\* C25: when the duration probe of the fallback fails, the fallback still
\* returns: it takes (number of chunks) x 3.0 s as the duration and yields one
\* segment per chunk, in chunk order, each with the chunk's text and a
\* positive length.
C25_ProbeFailureUsesThreeSecondsPerChunk ==
    (fb_pc = "done" /\ ~fb_probe.ok) =>
        /\ fb_out.duration = Len(fb_sentences) * 3000000
        /\ Len(fb_out.segments) = Len(fb_sentences)
        /\ \A i \in 1..Len(fb_out.segments) :
              /\ fb_out.segments[i].text = fb_sentences[i]
              /\ fb_out.segments[i].start < fb_out.segments[i].end

\* The fallback has returned three segments after a failed probe.
C25_Witness ==
    /\ fb_pc = "done" /\ ~fb_probe.ok
    /\ Len(fb_sentences) = 3 /\ Len(fb_out.segments) = 3
    /\ fb_out.duration = 9000000

\* ---- style store: independence of calls
SameArguments(i, j) ==
    /\ style_calls[i].preset_name = style_calls[j].preset_name
    /\ style_calls[i].width = style_calls[j].width
    /\ style_calls[i].height = style_calls[j].height

RenderFiles == {"input.mp4", "input.ass", "output.mp4"}

RenderSucceeded == endpoint = "render" /\ response.status = 200

\* C27: on a successful render the video, the subtitle file and the output
\* file all exist until the response has been sent, no step of a successful
\* render removes a file before that, and once the response has been sent
\* all three get deleted.
C27_RenderFilesDeletedOnlyAfterResponse ==
    /\ []((RenderSucceeded /\ ~sent) => RenderFiles \subseteq files)
    /\ [][(endpoint = "render" /\ files' # files /\ ~(files \subseteq files')) =>
             (sent \/ pc = "render_except")]_vars
    /\ ((RenderSucceeded /\ sent) ~> (pc = "done" /\ files \cap RenderFiles = {}))

\* The response of a successful render has been sent and the background
\* cleanup has removed the three files.
C27_Witness ==
    /\ RenderSucceeded /\ sent /\ pc = "done"
    /\ bg_tasks = RenderFiles /\ files = {}
    /\ response.path = "output.mp4"

\* ---- normalizer: words are kept in order
\* The wrapped lines of a segment text, before the cut to max_lines.
WrappedLines(raw) ==
    WrapWords(Split(Strip(raw)), <<>>, <<>>, norm_max_chars \div norm_max_lines)

\* C28: normalize never reorders, alters or invents a word: with line breaks
\* read as whitespace, the words of every output text are the first words of
\* its input text, in order; words are missing only at the end, and only
\* when the text was longer than max_chars and wrapped to more than
\* max_lines lines.
C28_OutputWordsArePrefixOfInputWords ==
    NormReturned =>
        \A i \in 1..Len(norm_segments) :
            LET in_words == Split(norm_segments[i].text)
                out_words == Split(norm_out.segments[i].text)
            IN  /\ Len(out_words) <= Len(in_words)
                /\ out_words = SubSeq(in_words, 1, Len(out_words))
                /\ Len(out_words) < Len(in_words) =>
                      /\ Len(Strip(norm_segments[i].text)) > norm_max_chars
                      /\ Len(WrappedLines(norm_segments[i].text)) > norm_max_lines

\* A text of three words has been wrapped to three lines and cut to two:
\* the first two words are returned and the third is dropped.
C28_Witness ==
    /\ NormReturned /\ Len(norm_segments) >= 1 /\ norm_max_lines = 2
    /\ Len(Split(norm_segments[1].text)) = 3
    /\ Len(WrappedLines(norm_segments[1].text)) = 3
    /\ Split(norm_out.segments[1].text) = SubSeq(Split(norm_segments[1].text), 1, 2)
    /\ Split(norm_segments[1].text)[3] # Split(norm_segments[1].text)[1]

====
